---- MODULE Spec2Model ----
(***************************************************************************)
(* svg-wheel-generator (src/src/index.js): SVG path data for the sectors   *)
(* of an annulus.  Every exported function is a pure computation on        *)
(* JavaScript numbers; the model computes the same expressions, in the     *)
(* same order, on decimal fixed-point numbers (ONE raw units = 1.0), each  *)
(* product, quotient and square root rounded to the nearest raw unit the   *)
(* way an IEEE operation rounds to the nearest double.                     *)
(***************************************************************************)
EXTENDS Integers, Sequences, FiniteSets

VARIABLES
    args,      \* the arguments of the call, as the caller passes them
    residue,   \* what the platform's arithmetic leaves of a cross product
               \* that is exactly zero: 0, or a rounding residue
    fn,        \* the exported function called ("" before the call)
    result,    \* what the call returned or threw
    calls,     \* the calls completed so far: the function, the arguments as
               \* passed, the arguments as the call left them, the result
    count      \* how many calls have completed

vars == << args, residue, fn, result, calls, count >>

----------------------------------------------------------------------------
(* Numbers *)

\* 1.0 in raw units: a number x of the program is the integer x * ONE.
ONE == 10000

\* The value 0/0 produces (src/src/index.js:41-42 when distance is 0).
NaN == -2147483647

IsNaN(x) == x = NaN

\* F(v), with v evaluated once: a statement `let x = v` followed by the
\* statements F that read x.
Let(v, F(_)) == CHOOSE r \in { F(x) : x \in {v} } : TRUE

Abs(x) == IF x < 0 THEN -x ELSE x

\* n / d for an integer d > 0, rounded to the nearest integer.
RoundDiv(n, d) ==
    IF n >= 0 THEN (n + d \div 2) \div d
              ELSE -((-n + d \div 2) \div d)

\* a + b and a - b on numbers: NaN is absorbing.
Plus(a, b) == IF IsNaN(a) \/ IsNaN(b) THEN NaN ELSE a + b

Minus(a, b) == IF IsNaN(a) \/ IsNaN(b) THEN NaN ELSE a - b

\* a * b on numbers (a whole factor multiplies exactly).
Mul(a, b) ==
    IF IsNaN(a) \/ IsNaN(b) THEN NaN
    ELSE IF b % ONE = 0 THEN a * (b \div ONE)
    ELSE IF a % ONE = 0 THEN (a \div ONE) * b
    ELSE RoundDiv(a * b, ONE)

\* a / b on numbers: 0 / 0 is NaN (x / 0 for x # 0 is infinite; no
\* expression of the program divides a non-zero number by zero on the
\* inputs modelled, see getPerpendicularOffset).
Div(a, b) ==
    IF IsNaN(a) \/ IsNaN(b) \/ b = 0 THEN NaN
    ELSE IF b % ONE = 0 /\ b > 0 THEN RoundDiv(a, b \div ONE)
    ELSE IF b > 0 THEN RoundDiv(a * ONE, b)
    ELSE RoundDiv(-(a * ONE), -b)

RECURSIVE SqrtSearch(_, _, _)
\* The largest r in lo..hi with r * r <= n (lo * lo <= n < (hi + 1)^2).
SqrtSearch(n, lo, hi) ==
    IF lo >= hi THEN lo
    ELSE LET mid == (lo + hi + 1) \div 2
         IN  IF mid * mid <= n THEN SqrtSearch(n, mid, hi)
                               ELSE SqrtSearch(n, lo, mid - 1)

\* Math.sqrt on numbers (x >= 0), rounded to the nearest raw unit.
Sqrt(x) ==
    IF IsNaN(x) \/ x < 0 THEN NaN
    ELSE LET n == x * ONE
             r == SqrtSearch(n, 0, 46340)
         IN  IF n - r * r > r THEN r + 1 ELSE r

\* Math.PI
PI == 31416

TwoPi == 2 * PI

HalfPi == PI \div 2

\* sin y for 0 <= y <= pi/2: the Taylor polynomial to y^9, by Horner's rule.
SinPoly(y) ==
    LET y2 == Mul(y, y)
        t4 == ONE - RoundDiv(y2, 72)
        t3 == ONE - RoundDiv(Mul(y2, t4), 42)
        t2 == ONE - RoundDiv(Mul(y2, t3), 20)
        t1 == ONE - RoundDiv(Mul(y2, t2), 6)
    IN  Mul(y, t1)

\* Math.sin: reduce the angle to [0, 2 pi), then to the first quadrant.
Sin(x) ==
    LET y == x % TwoPi
    IN  IF y <= HalfPi THEN SinPoly(y)
        ELSE IF y <= PI THEN SinPoly(PI - y)
        ELSE IF y <= PI + HalfPi THEN -SinPoly(y - PI)
        ELSE -SinPoly(TwoPi - y)

\* Math.cos
Cos(x) == Sin(x + HalfPi)

----------------------------------------------------------------------------
(* Geometric primitives *)

\* The default value of a center parameter: { x: 0, y: 0 }.
Origin == [x |-> 0, y |-> 0]

\* getPerpendicularOffset dividing by the squared distance: the square
\* root left out.
getPerpendicularOffset_NoRoot(start, end, offset) ==
    LET differenceX == Minus(start.x, end.x)
        differenceY == Minus(start.y, end.y)
        distance == Plus(Mul(differenceX, differenceX),
                         Mul(differenceY, differenceY))
    IN  [offsetX |-> Div(Mul(differenceX, offset), distance),
         offsetY |-> Div(Mul(differenceY, offset), distance)]

\* getPerpendicularOffset(start, end, offset)
getPerpendicularOffset(start, end, offset) ==
    LET differenceX == Minus(start.x, end.x)
        differenceY == Minus(start.y, end.y)
        distance == Sqrt(Plus(Mul(differenceX, differenceX),
                              Mul(differenceY, differenceY)))
    IN  [offsetX |-> Div(Mul(differenceX, offset), distance),
         offsetY |-> Div(Mul(differenceY, offset), distance)]

\* getPointOnCircle with sine and cosine exchanged.
getPointOnCircle_Exchanged(angle, radius, center) ==
    [x |-> Plus(center.x, Mul(radius, Sin(angle))),
     y |-> Plus(center.y, Mul(radius, Cos(angle)))]

\* getPointOnCircle(angle, radius, center)
getPointOnCircle(angle, radius, center) ==
    [x |-> Plus(center.x, Mul(radius, Cos(angle))),
     y |-> Plus(center.y, Mul(radius, Sin(angle)))]

\* getLeftParallelLine(start, end, offset)
getLeftParallelLine(start, end, offset) ==
    Let(getPerpendicularOffset(start, end, offset), LAMBDA o :
        [start |-> [x |-> Minus(start.x, o.offsetY),
                    y |-> Plus(start.y, o.offsetX)],
         end   |-> [x |-> Minus(end.x, o.offsetY),
                    y |-> Plus(end.y, o.offsetX)]])

\* getRightParallelLine(start, end, offset)
getRightParallelLine(start, end, offset) ==
    Let(getPerpendicularOffset(start, end, offset), LAMBDA o :
        [start |-> [x |-> Plus(start.x, o.offsetY),
                    y |-> Minus(start.y, o.offsetX)],
         end   |-> [x |-> Plus(end.x, o.offsetY),
                    y |-> Minus(end.y, o.offsetX)]])

----------------------------------------------------------------------------
(* Intersection.intersect of kld-intersections, as index.js uses it: the   *)
(* result's points, a sequence (points[0] is its first element, undefined  *)
(* when the sequence is empty).                                            *)

\* ShapeInfo.line(p1, p2)
LineShape(p1, p2) == [name |-> "Line", p1 |-> p1, p2 |-> p2]

\* ShapeInfo.circle(center, radius)
CircleShape(center, radius) ==
    [name |-> "Circle", center |-> center, radius |-> radius]

\* Point2D.lerp: a1 * (1 - t) + a2 * t
Lerp(a1, a2, t) ==
    LET omt == ONE - t
    IN  [x |-> Mul(a1.x, omt) + Mul(a2.x, t),
         y |-> Mul(a1.y, omt) + Mul(a2.y, t)]

HasNaN(p) == IsNaN(p.x) \/ IsNaN(p.y)

\* Intersection.intersectCircleLine(c, r, a1, a2): the segment a1-a2 with
\* the circle.  A negative discriminant (outside), a zero one (tangent) and
\* roots outside [0, 1] give no point; so do NaN operands, which fail every
\* comparison.
intersectCircleLine(c, r, a1, a2) ==
    IF HasNaN(a1) \/ HasNaN(a2) \/ HasNaN(c) \/ IsNaN(r) THEN << >>
    ELSE
    LET dx == a2.x - a1.x
        dy == a2.y - a1.y
        a  == Mul(dx, dx) + Mul(dy, dy)
        b  == 2 * (Mul(dx, a1.x - c.x) + Mul(dy, a1.y - c.y))
        cc == Mul(c.x, c.x) + Mul(c.y, c.y) + Mul(a1.x, a1.x) + Mul(a1.y, a1.y)
              - 2 * (Mul(c.x, a1.x) + Mul(c.y, a1.y)) - Mul(r, r)
        deter == Mul(b, b) - Mul(4 * a, cc)
    IN  IF deter <= 0 THEN << >>
        ELSE
        LET e  == Sqrt(deter)
            u1 == Div(-b + e, 2 * a)
            u2 == Div(-b - e, 2 * a)
            in1 == ~IsNaN(u1) /\ 0 <= u1 /\ u1 <= ONE
            in2 == ~IsNaN(u2) /\ 0 <= u2 /\ u2 <= ONE
        IN  (IF in1 THEN << Lerp(a1, a2, u1) >> ELSE << >>)
            \o (IF in2 THEN << Lerp(a1, a2, u2) >> ELSE << >>)

\* Intersection.intersectLineLine(a1, a2, b1, b2): two segments.  Parallel
\* and coincident segments (u_b = 0) and crossings outside either segment
\* give no point.  The directions of two parallel segments come from
\* Math.cos and Math.sin of different angles (t and t + pi, say), whose
\* doubles are not exact negatives of each other: the cross product u_b of
\* exactly parallel directions is 0 or a rounding residue, as the platform
\* has it.
intersectLineLine(a1, a2, b1, b2) ==
    IF HasNaN(a1) \/ HasNaN(a2) \/ HasNaN(b1) \/ HasNaN(b2) THEN << >>
    ELSE
    LET ua_t == Mul(b2.x - b1.x, a1.y - b1.y) - Mul(b2.y - b1.y, a1.x - b1.x)
        ub_t == Mul(a2.x - a1.x, a1.y - b1.y) - Mul(a2.y - a1.y, a1.x - b1.x)
        cross == Mul(b2.y - b1.y, a2.x - a1.x) - Mul(b2.x - b1.x, a2.y - a1.y)
        u_b  == IF cross = 0 THEN residue ELSE cross
    IN  IF u_b = 0 THEN << >>
        ELSE
        LET ua == Div(ua_t, u_b)
            ub == Div(ub_t, u_b)
        IN  IF 0 <= ua /\ ua <= ONE /\ 0 <= ub /\ ub <= ONE
            THEN << [x |-> a1.x + Mul(ua, a2.x - a1.x),
                     y |-> a1.y + Mul(ua, a2.y - a1.y)] >>
            ELSE << >>

\* An intersect that answers every lookup: where the line and the other
\* shape have no point in common it gives the start of the line.
Intersect_Always(shape1, shape2) ==
    LET line == IF shape1.name = "Line" THEN shape1 ELSE shape2
        points ==
            IF shape1.name = "Line" /\ shape2.name = "Line"
            THEN intersectLineLine(shape2.p1, shape2.p2, shape1.p1, shape1.p2)
            ELSE IF shape1.name = "Line"
            THEN intersectCircleLine(shape2.center, shape2.radius, shape1.p1, shape1.p2)
            ELSE intersectCircleLine(shape1.center, shape1.radius, shape2.p1, shape2.p2)
    IN  IF points = << >> THEN << line.p1 >> ELSE points

\* Intersection.intersect(shape1, shape2).points: the method is named after
\* the two shapes in alphabetical order, the arguments follow that order
\* (shape2 first when the names are equal).
Intersect(shape1, shape2) ==
    IF shape1.name = "Line" /\ shape2.name = "Line"
    THEN intersectLineLine(shape2.p1, shape2.p2, shape1.p1, shape1.p2)
    ELSE IF shape1.name = "Line"
    THEN intersectCircleLine(shape2.center, shape2.radius, shape1.p1, shape1.p2)
    ELSE intersectCircleLine(shape1.center, shape1.radius, shape2.p1, shape2.p2)

----------------------------------------------------------------------------
(* Path data: a string is the sequence of its tokens.  A token is a command *)
(* letter, a number written by a template substitution, a space or a line   *)
(* break.                                                                   *)

Tok(c, n) == [c |-> c, n |-> n]

M == Tok("M", 0)

A == Tok("A", 0)

L == Tok("L", 0)

Z == Tok("Z", 0)

Sp == Tok(" ", 0)

Nl == Tok("\n", 0)

\* ${v}: the number v written into the template.
Num(v) == Tok("num", v)

\* The line break and indentation before each line of a template literal.
Indent == << Nl, Sp, Sp, Sp, Sp >>

IsSpace(t) == t.c \in {" ", "\n"}

\* A token of the path, marked as kept unless it is white space that
\* follows white space.
Marked(path, i) ==
    [tok  |-> IF IsSpace(path[i]) THEN Sp ELSE path[i],
     kept |-> ~IsSpace(path[i]) \/ i = 1 \/ ~IsSpace(path[i - 1])]

Kept(m) == m.kept

\* path.replace(/\s+/g, ' '): every run of white space becomes one space.
Collapse(path) ==
    LET marked == SelectSeq([i \in 1..Len(path) |-> Marked(path, i)], Kept)
    IN  [i \in 1..Len(marked) |-> marked[i].tok]

RECURSIVE TrimLeft(_)
TrimLeft(s) == IF s # << >> /\ IsSpace(Head(s)) THEN TrimLeft(Tail(s)) ELSE s

RECURSIVE TrimRight(_)
TrimRight(s) ==
    IF s # << >> /\ IsSpace(s[Len(s)])
    THEN TrimRight(SubSeq(s, 1, Len(s) - 1)) ELSE s

\* String.prototype.trim
Trim(s) == TrimRight(TrimLeft(s))

\* stripWhitespace(path)
stripWhitespace(path) == Trim(Collapse(path))

----------------------------------------------------------------------------
(* Results of a call: the value returned, or the exception thrown.  Reading *)
(* .x of points[0] when the intersection has no point throws a TypeError.   *)

Return(v) == [throws |-> FALSE, error |-> "", value |-> v]

Throw(e) == [throws |-> TRUE, error |-> e, value |-> << >>]

\* Whether points[0] is undefined.
Undefined(points) == points = << >>

----------------------------------------------------------------------------
(* Single-sector path builders *)

\* The text of getAnnulusSectorPath's first template literal.
CollapsedTemplate(outerArcStart, outerArcEnd, lineIntersection, outerRadius) ==
    Indent \o << M, Sp, Num(outerArcStart.x), Sp, Num(outerArcStart.y) >>
    \o Indent \o << A, Sp, Num(outerRadius), Sp, Num(outerRadius), Sp, Num(0),
                    Sp, Num(0), Sp, Num(ONE), Sp, Num(outerArcEnd.x), Sp,
                    Num(outerArcEnd.y) >>
    \o Indent \o << L, Sp, Num(lineIntersection.x), Sp, Num(lineIntersection.y) >>
    \o Indent \o << Z >>
    \o Indent

\* The text of getAnnulusSectorPath's second template literal.
FullTemplate(outerArcStart, outerArcEnd, innerArcStart, innerArcEnd, outerRadius, innerRadius) ==
    Indent \o << M, Sp, Num(outerArcStart.x), Sp, Num(outerArcStart.y) >>
    \o Indent \o << A, Sp, Num(outerRadius), Sp, Num(outerRadius), Sp, Num(0),
                    Sp, Num(0), Sp, Num(ONE), Sp, Num(outerArcEnd.x), Sp,
                    Num(outerArcEnd.y) >>
    \o Indent \o << L, Sp, Num(innerArcStart.x), Sp, Num(innerArcStart.y) >>
    \o Indent \o << A, Sp, Num(innerRadius), Sp, Num(innerRadius), Sp, Num(0),
                    Sp, Num(0), Sp, Num(0), Sp, Num(innerArcEnd.x), Sp,
                    Num(innerArcEnd.y) >>
    \o Indent \o << Z >>
    \o Indent

\* getAnnulusSectorPath with the collapsed form kept for innerRadius <
\* spokeWidth only.
getAnnulusSectorPath_Strict(startAngle, endAngle, outerRadius, innerRadius, spokeWidth, center) ==
    Let(getRightParallelLine(
            center,
            getPointOnCircle(startAngle, outerRadius + ONE, center),
            Div(spokeWidth, 2 * ONE)), LAMBDA leftLine :
    Let(getLeftParallelLine(
            center,
            getPointOnCircle(endAngle, outerRadius + ONE, center),
            Div(spokeWidth, 2 * ONE)), LAMBDA rightLine :
    LET leftLineShape == LineShape(leftLine.start, leftLine.end)
        rightLineShape == LineShape(rightLine.start, rightLine.end)
        outerCircleShape == CircleShape(center, outerRadius)
        innerCircleShape == CircleShape(center, innerRadius)
    IN
    Let(Intersect(leftLineShape, outerCircleShape), LAMBDA outerArcStart :
    Let(Intersect(rightLineShape, outerCircleShape), LAMBDA outerArcEnd :
    IF innerRadius < spokeWidth
    THEN Let(Intersect(leftLineShape, rightLineShape), LAMBDA lineIntersection :
         IF Undefined(outerArcStart) \/ Undefined(outerArcEnd)
            \/ Undefined(lineIntersection)
         THEN Throw("TypeError")
         ELSE Return(stripWhitespace(CollapsedTemplate(
                  outerArcStart[1], outerArcEnd[1], lineIntersection[1],
                  outerRadius))))
    ELSE Let(Intersect(rightLineShape, innerCircleShape), LAMBDA innerArcStart :
         Let(Intersect(leftLineShape, innerCircleShape), LAMBDA innerArcEnd :
         IF Undefined(outerArcStart) \/ Undefined(outerArcEnd)
            \/ Undefined(innerArcStart) \/ Undefined(innerArcEnd)
         THEN Throw("TypeError")
         ELSE Return(stripWhitespace(FullTemplate(
                  outerArcStart[1], outerArcEnd[1], innerArcStart[1],
                  innerArcEnd[1], outerRadius, innerRadius)))))))))

\* getAnnulusSectorPath(startAngle, endAngle, outerRadius, innerRadius,
\*                      spokeWidth, center)
getAnnulusSectorPath(startAngle, endAngle, outerRadius, innerRadius, spokeWidth, center) ==
    Let(getRightParallelLine(
            center,
            getPointOnCircle(startAngle, outerRadius + ONE, center),
            Div(spokeWidth, 2 * ONE)), LAMBDA leftLine :
    Let(getLeftParallelLine(
            center,
            getPointOnCircle(endAngle, outerRadius + ONE, center),
            Div(spokeWidth, 2 * ONE)), LAMBDA rightLine :
    LET leftLineShape == LineShape(leftLine.start, leftLine.end)
        rightLineShape == LineShape(rightLine.start, rightLine.end)
        outerCircleShape == CircleShape(center, outerRadius)
        innerCircleShape == CircleShape(center, innerRadius)
    IN
    Let(Intersect(leftLineShape, outerCircleShape), LAMBDA outerArcStart :
    Let(Intersect(rightLineShape, outerCircleShape), LAMBDA outerArcEnd :
    IF innerRadius <= spokeWidth
    THEN Let(Intersect(leftLineShape, rightLineShape), LAMBDA lineIntersection :
         IF Undefined(outerArcStart) \/ Undefined(outerArcEnd)
            \/ Undefined(lineIntersection)
         THEN Throw("TypeError")
         ELSE Return(stripWhitespace(CollapsedTemplate(
                  outerArcStart[1], outerArcEnd[1], lineIntersection[1],
                  outerRadius))))
    ELSE Let(Intersect(rightLineShape, innerCircleShape), LAMBDA innerArcStart :
         Let(Intersect(leftLineShape, innerCircleShape), LAMBDA innerArcEnd :
         IF Undefined(outerArcStart) \/ Undefined(outerArcEnd)
            \/ Undefined(innerArcStart) \/ Undefined(innerArcEnd)
         THEN Throw("TypeError")
         ELSE Return(stripWhitespace(FullTemplate(
                  outerArcStart[1], outerArcEnd[1], innerArcStart[1],
                  innerArcEnd[1], outerRadius, innerRadius)))))))))

\* The text of getAnnulusSectorArcTextPath's template literals: from one
\* guide point to the other with the sweep flag given.
ArcTextTemplate(from, to, middleRadius, sweepFlag) ==
    Indent \o << M, Sp, Num(from.x), Sp, Num(from.y) >>
    \o Indent \o << A, Sp, Num(middleRadius), Sp, Num(middleRadius), Sp,
                    Num(0), Sp, Num(0), Sp, Num(sweepFlag), Sp, Num(to.x),
                    Sp, Num(to.y) >>
    \o Indent

\* getAnnulusSectorArcTextPath without the exchange of the two points.
getAnnulusSectorArcTextPath_Unordered(startAngle, endAngle, outerRadius, innerRadius, spokeWidth, center) ==
    Let(getRightParallelLine(
            center,
            getPointOnCircle(startAngle, outerRadius, center),
            Div(spokeWidth, 2 * ONE)), LAMBDA leftLine :
    Let(getLeftParallelLine(
            center,
            getPointOnCircle(endAngle, outerRadius, center),
            Div(spokeWidth, 2 * ONE)), LAMBDA rightLine :
    LET middleRadius == Div(innerRadius + outerRadius, 2 * ONE)
        leftLineShape == LineShape(leftLine.start, leftLine.end)
        rightLineShape == LineShape(rightLine.start, rightLine.end)
        circleShape == CircleShape(center, middleRadius)
    IN
    Let(Intersect(leftLineShape, circleShape), LAMBDA textPathStart :
    Let(Intersect(rightLineShape, circleShape), LAMBDA textPathEnd :
    IF Undefined(textPathStart) \/ Undefined(textPathEnd)
    THEN Throw("TypeError")
    ELSE Return(stripWhitespace(ArcTextTemplate(
             textPathStart[1], textPathEnd[1], middleRadius, ONE)))))))

\* getAnnulusSectorArcTextPath(startAngle, endAngle, outerRadius,
\*                             innerRadius, spokeWidth, center)
getAnnulusSectorArcTextPath(startAngle, endAngle, outerRadius, innerRadius, spokeWidth, center) ==
    Let(getRightParallelLine(
            center,
            getPointOnCircle(startAngle, outerRadius, center),
            Div(spokeWidth, 2 * ONE)), LAMBDA leftLine :
    Let(getLeftParallelLine(
            center,
            getPointOnCircle(endAngle, outerRadius, center),
            Div(spokeWidth, 2 * ONE)), LAMBDA rightLine :
    LET middleRadius == Div(innerRadius + outerRadius, 2 * ONE)
        leftLineShape == LineShape(leftLine.start, leftLine.end)
        rightLineShape == LineShape(rightLine.start, rightLine.end)
        circleShape == CircleShape(center, middleRadius)
    IN
    Let(Intersect(leftLineShape, circleShape), LAMBDA textPathStart :
    Let(Intersect(rightLineShape, circleShape), LAMBDA textPathEnd :
    IF Undefined(textPathStart) \/ Undefined(textPathEnd)
    THEN Throw("TypeError")
    ELSE IF textPathStart[1].x > textPathEnd[1].x
    THEN Return(stripWhitespace(ArcTextTemplate(
             textPathEnd[1], textPathStart[1], middleRadius, 0)))
    ELSE Return(stripWhitespace(ArcTextTemplate(
             textPathStart[1], textPathEnd[1], middleRadius, ONE)))))))

\* The text of getAnnulusSectorLineTextPath's template literals.
LineTextTemplate(from, to) ==
    Indent \o << M, Sp, Num(from.x), Sp, Num(from.y) >>
    \o Indent \o << L, Sp, Num(to.x), Sp, Num(to.y) >>
    \o Indent

\* getAnnulusSectorLineTextPath(startAngle, endAngle, outerRadius,
\*                              innerRadius, spokeWidth, center)
getAnnulusSectorLineTextPath(startAngle, endAngle, outerRadius, innerRadius, spokeWidth, center) ==
    LET middleAngle == Div(startAngle + endAngle, 2 * ONE)
    IN
    Let(getPointOnCircle(middleAngle, outerRadius + ONE, center), LAMBDA lineEnd :
    LET lineShape == LineShape(center, lineEnd)
        innerCircleShape == CircleShape(center, innerRadius)
        outerCircleShape == CircleShape(center, outerRadius)
    IN
    Let(Intersect(lineShape, innerCircleShape), LAMBDA textPathStart :
    Let(Intersect(lineShape, outerCircleShape), LAMBDA textPathEnd :
    IF Undefined(textPathStart) \/ Undefined(textPathEnd)
    THEN Throw("TypeError")
    ELSE IF textPathStart[1].x > textPathEnd[1].x
    THEN Return(stripWhitespace(LineTextTemplate(textPathEnd[1], textPathStart[1])))
    ELSE Return(stripWhitespace(LineTextTemplate(textPathStart[1], textPathEnd[1]))))))

----------------------------------------------------------------------------
(* Multi-sector batch builders *)

\* ToLength(length) of Array.from({ length }): no element for a length <= 0.
ToLength(length) == IF length > 0 THEN length ELSE 0

\* Array.from({ length }, callback): callback(index) for index 0, 1, ... in
\* order; an exception of a callback ends the call.
ArrayFrom(length, callback(_)) ==
    LET n == ToLength(length)
    IN  Let([i \in 1..n |-> callback(i - 1)], LAMBDA r :
        IF \E i \in 1..n : r[i].throws
        THEN Throw(r[CHOOSE i \in 1..n :
                       r[i].throws /\ \A j \in 1..(i - 1) : ~r[j].throws].error)
        ELSE Return([i \in 1..n |-> r[i].value]))

\* 2 * Math.PI / sectorCount
outerArcLength(sectorCount) == Div(Mul(2 * ONE, PI), sectorCount * ONE)

\* SectorStart counting the sectors from 1.
SectorStart_FromOne(sectorCount, angleOffset, index) ==
    Plus(angleOffset, Mul((index + 1) * ONE, outerArcLength(sectorCount)))

\* startAngle of the sector at index
SectorStart(sectorCount, angleOffset, index) ==
    Plus(angleOffset, Mul(index * ONE, outerArcLength(sectorCount)))

\* endAngle of the sector at index
SectorEnd(sectorCount, angleOffset, index) ==
    Plus(SectorStart(sectorCount, angleOffset, index), outerArcLength(sectorCount))

\* getAnnulusSectorPaths(sectorCount, outerRadius, innerRadius, spokeWidth,
\*                       angleOffset, center)
getAnnulusSectorPaths(sectorCount, outerRadius, innerRadius, spokeWidth, angleOffset, center) ==
    LET callback(index) ==
            getAnnulusSectorPath(SectorStart(sectorCount, angleOffset, index),
                                 SectorEnd(sectorCount, angleOffset, index),
                                 outerRadius, innerRadius, spokeWidth, center)
    IN  ArrayFrom(sectorCount, callback)

\* getAnnulusSectorArcTextPaths(sectorCount, outerRadius, innerRadius,
\*                              spokeWidth, angleOffset, center)
getAnnulusSectorArcTextPaths(sectorCount, outerRadius, innerRadius, spokeWidth, angleOffset, center) ==
    LET callback(index) ==
            getAnnulusSectorArcTextPath(SectorStart(sectorCount, angleOffset, index),
                                        SectorEnd(sectorCount, angleOffset, index),
                                        outerRadius, innerRadius, spokeWidth, center)
    IN  ArrayFrom(sectorCount, callback)

\* getAnnulusSectorLineTextPaths(sectorCount, outerRadius, innerRadius,
\*                               spokeWidth, angleOffset, center)
getAnnulusSectorLineTextPaths(sectorCount, outerRadius, innerRadius, spokeWidth, angleOffset, center) ==
    LET callback(index) ==
            getAnnulusSectorLineTextPath(SectorStart(sectorCount, angleOffset, index),
                                         SectorEnd(sectorCount, angleOffset, index),
                                         outerRadius, innerRadius, spokeWidth, center)
    IN  ArrayFrom(sectorCount, callback)

----------------------------------------------------------------------------
(* Deprecated functions: angles in degrees, measured from the top *)

\* a % b of JavaScript for b > 0: the remainder has the sign of a.
JsRem(a, b) == IF a >= 0 THEN a % b ELSE -((-a) % b)

\* degToRad without the quarter turn to the top of the circle.
degToRad_FromEast(deg) ==
    Mul(Div(JsRem(deg, 360 * ONE), 180 * ONE), PI)

\* degToRad(deg)
degToRad(deg) ==
    Mul(Div(Minus(JsRem(deg, 360 * ONE), 90 * ONE), 180 * ONE), PI)

\* getWheelSegmentPath
getWheelSegmentPath(startAngle, endAngle, outerRadius, innerRadius, spokeWidth, center) ==
    getAnnulusSectorPath(degToRad(startAngle), degToRad(endAngle),
                         outerRadius, innerRadius, spokeWidth, center)

\* getWheelSegmentPaths
getWheelSegmentPaths(segmentCount, outerRadius, innerRadius, spokeWidth, angleOffset, center) ==
    getAnnulusSectorPaths(segmentCount, outerRadius, innerRadius, spokeWidth,
                          degToRad(angleOffset), center)

\* getWheelSegmentArcTextPath
getWheelSegmentArcTextPath(startAngle, endAngle, outerRadius, innerRadius, spokeWidth, center) ==
    getAnnulusSectorArcTextPath(degToRad(startAngle), degToRad(endAngle),
                                outerRadius, innerRadius, spokeWidth, center)

\* getWheelSegmentArcTextPaths
getWheelSegmentArcTextPaths(segmentCount, outerRadius, innerRadius, spokeWidth, angleOffset, center) ==
    getAnnulusSectorArcTextPaths(segmentCount, outerRadius, innerRadius,
                                 spokeWidth, degToRad(angleOffset), center)

\* getWheelSegmentLineTextPath
getWheelSegmentLineTextPath(startAngle, endAngle, outerRadius, innerRadius, spokeWidth, center) ==
    getAnnulusSectorLineTextPath(degToRad(startAngle), degToRad(endAngle),
                                 outerRadius, innerRadius, spokeWidth, center)

\* getWheelSegmentLineTextPaths
getWheelSegmentLineTextPaths(segmentCount, outerRadius, innerRadius, spokeWidth, angleOffset, center) ==
    getAnnulusSectorLineTextPaths(segmentCount, outerRadius, innerRadius,
                                  spokeWidth, degToRad(angleOffset), center)

----------------------------------------------------------------------------
(* The calls: the arguments are drawn in Init, one action per exported      *)
(* function applies it to them.                                             *)

\* The largest sectorCount passed to a batch builder.
MaxSectorCount == 8

\* The most arguments a call passes.
MaxArgc == 6

\* center arguments
Centers == { Origin, [x |-> 5000, y |-> -5000] }

\* outerRadius arguments
OuterRadii == { 8000, 10000 }

\* innerRadius arguments: none, a hub inside the spokes, a hub outside them
InnerRadii == { 0, 2000, 4000 }

\* spokeWidth arguments: no spoke, a narrow one, one wider than the wheel
SpokeWidths == { 0, 2000, 24000 }

\* spokeWidth arguments of the batch builders
BatchSpokeWidths == { 0, 2000 }

\* startAngle arguments in radians: 0, 1, 7 pi / 8
StartAngles == { 0, 10000, 27489 }

\* endAngle - startAngle in radians: 0, pi / 4, 2 pi / 3, pi, 2 pi
Spans == { 0, 7854, 20944, PI, TwoPi }

\* startAngle arguments in degrees
StartDegrees == { -90 * ONE, 0, 135 * ONE, 270 * ONE, 450 * ONE }

\* endAngle - startAngle in degrees
SpanDegrees == { 0, 45 * ONE, 90 * ONE, 180 * ONE, 360 * ONE }

\* angleOffset arguments in radians
AngleOffsets == { 0, 3927 }

\* angleOffset arguments in degrees
AngleOffsetDegrees == { 0, -45 * ONE }

\* start and end arguments of the parallel line functions
Points == { Origin, [x |-> ONE, y |-> 0], [x |-> 5000, y |-> -5000],
            [x |-> -ONE, y |-> 2 * ONE] }

\* offset arguments of the parallel line functions
Offsets == { 0, 5000, -5000, 5 * ONE }

\* Arguments a call omits are written as their placeholder: 0 or Origin.
Omits(a) ==
    /\ a.argc < 4 => a.p4 = 0
    /\ a.argc < 5 => a.p5 = 0
    /\ a.argc < 6 => a.center = Origin

\* (startAngle, endAngle, outerRadius, innerRadius, spokeWidth, center)
SectorArgs(kind, starts, spans) ==
    { a \in [kind : {kind}, argc : 3..MaxArgc, startAngle : starts,
             span : spans, outerRadius : OuterRadii, p4 : InnerRadii,
             p5 : SpokeWidths, center : Centers] : Omits(a) }

\* (sectorCount, outerRadius, innerRadius, spokeWidth, angleOffset, center)
BatchArgs(kind, offsets) ==
    { a \in [kind : {kind}, argc : 2..MaxArgc, sectorCount : -1..MaxSectorCount,
             outerRadius : {ONE}, p3 : {0, 4000}, p4 : BatchSpokeWidths,
             p5 : offsets, center : Centers] :
        /\ a.argc < 3 => a.p3 = 0
        /\ Omits(a) }

\* (angle, radius, center)
PointArgs ==
    { a \in [kind : {"point"}, argc : 2..3, angle : StartAngles \cup Spans,
             radius : OuterRadii, center : Centers] :
        a.argc < 3 => a.center = Origin }

\* (start, end, offset)
LineArgs == [kind : {"line"}, argc : {3}, start : Points, end : Points,
             offset : Offsets]

NoResult == [throws |-> FALSE, error |-> "", value |-> << >>]

Init ==
    /\ args \in SectorArgs("sector", StartAngles, Spans)
                \cup SectorArgs("segment", StartDegrees, SpanDegrees)
                \cup BatchArgs("sectors", AngleOffsets)
                \cup BatchArgs("segments", AngleOffsetDegrees)
                \cup PointArgs \cup LineArgs
    /\ residue \in IF args.kind \in {"point", "line"} THEN {0} ELSE {0, 1}
    /\ fn = ""
    /\ result = NoResult
    /\ calls = {}
    /\ count = 0

\* The call of the function named completes: it joins the calls made.
Completes(name) ==
    /\ calls' = calls \cup {[fn |-> name, passed |-> args, kept |-> args',
                             result |-> result']}
    /\ count' = count + 1

\* The value of the parameter at a position: the argument, or the default
\* when the call passes fewer arguments.
Param(position, argument, default) ==
    IF args.argc >= position THEN argument ELSE default

\* A call of a single-sector function f on the arguments.
CallSector(kind, name, f(_, _, _, _, _, _)) ==
    /\ fn = ""
    /\ args.kind = kind
    /\ fn' = name
    /\ result' = f(args.startAngle, args.startAngle + args.span,
                   args.outerRadius, Param(4, args.p4, 0),
                   Param(5, args.p5, 0), Param(6, args.center, Origin))
    /\ UNCHANGED << args, residue >>
    /\ Completes(name)

\* A call of a batch function f on the arguments.
CallBatch(kind, name, f(_, _, _, _, _, _)) ==
    /\ fn = ""
    /\ args.kind = kind
    /\ fn' = name
    /\ result' = f(args.sectorCount, args.outerRadius, Param(3, args.p3, 0),
                   Param(4, args.p4, 0), Param(5, args.p5, 0),
                   Param(6, args.center, Origin))
    /\ UNCHANGED << args, residue >>
    /\ Completes(name)

CallGetPointOnCircle ==
    /\ fn = ""
    /\ args.kind = "point"
    /\ fn' = "getPointOnCircle"
    /\ result' = Return(getPointOnCircle(args.angle, args.radius,
                                         Param(3, args.center, Origin)))
    /\ UNCHANGED << args, residue >>
    /\ Completes("getPointOnCircle")

\* getLeftParallelLine moving the caller's two points instead of building
\* new ones.
CallGetLeftParallelLine_InPlace ==
    /\ fn = ""
    /\ args.kind = "line"
    /\ fn' = "getLeftParallelLine"
    /\ result' = Return(getLeftParallelLine(args.start, args.end, args.offset))
    /\ args' = [args EXCEPT !.start = result'.value.start,
                            !.end = result'.value.end]
    /\ UNCHANGED residue
    /\ Completes("getLeftParallelLine")

CallGetLeftParallelLine ==
    /\ fn = ""
    /\ args.kind = "line"
    /\ fn' = "getLeftParallelLine"
    /\ result' = Return(getLeftParallelLine(args.start, args.end, args.offset))
    /\ UNCHANGED << args, residue >>
    /\ Completes("getLeftParallelLine")

CallGetRightParallelLine ==
    /\ fn = ""
    /\ args.kind = "line"
    /\ fn' = "getRightParallelLine"
    /\ result' = Return(getRightParallelLine(args.start, args.end, args.offset))
    /\ UNCHANGED << args, residue >>
    /\ Completes("getRightParallelLine")

CallGetAnnulusSectorPath ==
    CallSector("sector", "getAnnulusSectorPath", getAnnulusSectorPath)

CallGetAnnulusSectorArcTextPath ==
    CallSector("sector", "getAnnulusSectorArcTextPath", getAnnulusSectorArcTextPath)

CallGetAnnulusSectorLineTextPath ==
    CallSector("sector", "getAnnulusSectorLineTextPath", getAnnulusSectorLineTextPath)

CallGetAnnulusSectorPaths ==
    CallBatch("sectors", "getAnnulusSectorPaths", getAnnulusSectorPaths)

CallGetAnnulusSectorArcTextPaths ==
    CallBatch("sectors", "getAnnulusSectorArcTextPaths", getAnnulusSectorArcTextPaths)

CallGetAnnulusSectorLineTextPaths ==
    CallBatch("sectors", "getAnnulusSectorLineTextPaths", getAnnulusSectorLineTextPaths)

CallGetWheelSegmentPath ==
    CallSector("segment", "getWheelSegmentPath", getWheelSegmentPath)

CallGetWheelSegmentArcTextPath ==
    CallSector("segment", "getWheelSegmentArcTextPath", getWheelSegmentArcTextPath)

CallGetWheelSegmentLineTextPath ==
    CallSector("segment", "getWheelSegmentLineTextPath", getWheelSegmentLineTextPath)

CallGetWheelSegmentPaths ==
    CallBatch("segments", "getWheelSegmentPaths", getWheelSegmentPaths)

CallGetWheelSegmentArcTextPaths ==
    CallBatch("segments", "getWheelSegmentArcTextPaths", getWheelSegmentArcTextPaths)

CallGetWheelSegmentLineTextPaths ==
    CallBatch("segments", "getWheelSegmentLineTextPaths", getWheelSegmentLineTextPaths)

Next ==
    \/ CallGetPointOnCircle
    \/ CallGetLeftParallelLine
    \/ CallGetRightParallelLine
    \/ CallGetAnnulusSectorPath
    \/ CallGetAnnulusSectorPaths
    \/ CallGetAnnulusSectorArcTextPath
    \/ CallGetAnnulusSectorArcTextPaths
    \/ CallGetAnnulusSectorLineTextPath
    \/ CallGetAnnulusSectorLineTextPaths
    \/ CallGetWheelSegmentPath
    \/ CallGetWheelSegmentPaths
    \/ CallGetWheelSegmentArcTextPath
    \/ CallGetWheelSegmentArcTextPaths
    \/ CallGetWheelSegmentLineTextPath
    \/ CallGetWheelSegmentLineTextPaths

Spec == Init /\ [][Next]_vars

----------------------------------------------------------------------------
(* Several calls in a row *)

\* How many calls a caller makes.
MaxCalls == 3

\* The arguments the caller passes in a row of calls: one set of arguments
\* for each signature.
CallArgs ==
    { [kind |-> "sector", argc |-> 6, startAngle |-> ONE, span |-> 7854,
       outerRadius |-> ONE, p4 |-> 4000, p5 |-> 2000,
       center |-> [x |-> 5000, y |-> -5000]],
      [kind |-> "segment", argc |-> 4, startAngle |-> 135 * ONE,
       span |-> 90 * ONE, outerRadius |-> ONE, p4 |-> 4000, p5 |-> 0,
       center |-> Origin],
      [kind |-> "sectors", argc |-> 6, sectorCount |-> 3, outerRadius |-> ONE,
       p3 |-> 4000, p4 |-> 2000, p5 |-> 3927,
       center |-> [x |-> 5000, y |-> -5000]],
      [kind |-> "segments", argc |-> 2, sectorCount |-> 1, outerRadius |-> ONE,
       p3 |-> 0, p4 |-> 0, p5 |-> 0, center |-> Origin],
      [kind |-> "point", argc |-> 3, angle |-> ONE, radius |-> ONE,
       center |-> [x |-> 5000, y |-> -5000]],
      [kind |-> "line", argc |-> 3, start |-> [x |-> 5000, y |-> -5000],
       end |-> [x |-> -ONE, y |-> 2 * ONE], offset |-> 5000] }

InitCalls ==
    /\ args \in CallArgs
    /\ residue \in {0, 1}
    /\ fn = ""
    /\ result = NoResult
    /\ calls = {}
    /\ count = 0

\* The caller passes the arguments of its next call.
Again ==
    /\ fn # ""
    /\ count < MaxCalls
    /\ fn' = ""
    /\ args' \in CallArgs
    /\ result' = NoResult
    /\ UNCHANGED << residue, calls, count >>

NextCalls ==
    \/ Next
    \/ Again

SpecCalls == InitCalls /\ [][NextCalls]_vars

----------------------------------------------------------------------------
(* What the claims read *)

\* 0.005: half a unit of the second decimal.
Tolerance == ONE \div 200

SingleBuilders == { "getAnnulusSectorPath", "getAnnulusSectorArcTextPath",
                    "getAnnulusSectorLineTextPath" }

BatchBuilders == { "getAnnulusSectorPaths", "getAnnulusSectorArcTextPaths",
                   "getAnnulusSectorLineTextPaths" }

LegacySingle == { "getWheelSegmentPath", "getWheelSegmentArcTextPath",
                  "getWheelSegmentLineTextPath" }

LegacyBatch == { "getWheelSegmentPaths", "getWheelSegmentArcTextPaths",
                 "getWheelSegmentLineTextPaths" }

\* The commands and numbers of a path string, without the spaces.
Items(path) == SelectSeq(path, LAMBDA t : ~IsSpace(t))

\* The kinds of the items of a path string.
Shape(path) == [i \in 1..Len(Items(path)) |-> Items(path)[i].c]

\* The point written at items i and i + 1.
PointAt(items, i) == [x |-> items[i].n, y |-> items[i + 1].n]

StartsWithM(path) == Len(path) >= 2 /\ path[1] = M /\ path[2] = Sp

EndsWithZ(path) == Len(path) >= 1 /\ path[Len(path)] = Z

\* The distance of p from c.
Distance(p, c) ==
    Sqrt(Mul(p.x - c.x, p.x - c.x) + Mul(p.y - c.y, p.y - c.y))

OnCircle(p, c, radius) == Abs(Distance(p, c) - radius) <= Tolerance

\* How far p lies to the left of the ray that leaves c at the angle.
LeftOf(p, c, angle) ==
    Mul(p.y - c.y, Cos(angle)) - Mul(p.x - c.x, Sin(angle))

\* p lies on the boundary line of the start angle: the ray moved
\* spokeWidth / 2 into the sector.
OnStartBoundary(p, c, angle, spokeWidth) ==
    Abs(LeftOf(p, c, angle) - RoundDiv(spokeWidth, 2)) <= Tolerance

\* p lies on the boundary line of the end angle.
OnEndBoundary(p, c, angle, spokeWidth) ==
    Abs(LeftOf(p, c, angle) + RoundDiv(spokeWidth, 2)) <= Tolerance

\* The single-sector builder a batch builder delegates to.
SingleOf(name, startAngle, endAngle, outerRadius, innerRadius, spokeWidth, center) ==
    IF name = "getAnnulusSectorPaths"
    THEN getAnnulusSectorPath(startAngle, endAngle, outerRadius, innerRadius,
                              spokeWidth, center)
    ELSE IF name = "getAnnulusSectorArcTextPaths"
    THEN getAnnulusSectorArcTextPath(startAngle, endAngle, outerRadius,
                                     innerRadius, spokeWidth, center)
    ELSE getAnnulusSectorLineTextPath(startAngle, endAngle, outerRadius,
                                      innerRadius, spokeWidth, center)

\* The sectors of the batch call of the state, each built on its own:
\* sector i starts at angleOffset + i * span, span = 2 pi / sectorCount.
SinglesOfBatch ==
    LET n == args.sectorCount
        span == RoundDiv(2 * PI, n)
    IN  [i \in 0..(n - 1) |->
            SingleOf(fn, args.p5 + i * span, args.p5 + i * span + span,
                     args.outerRadius, args.p3, args.p4, args.center)]

\* Item i of the items is a coordinate of a point: an operand of M or L, or
\* one of the last two of the seven operands of A.
IsCoordinate(items, i) ==
    /\ items[i].c = "num"
    /\ \E j \in 1..(i - 1) :
          /\ items[j].c # "num"
          /\ \A k \in (j + 1)..i : items[k].c = "num"
          /\ items[j].c \in {"M", "L"} \/ (items[j].c = "A" /\ i - j \in {6, 7})

\* The coordinates written in a path string.
Coordinates(path) ==
    { Items(path)[i].n : i \in { k \in 1..Len(Items(path)) : IsCoordinate(Items(path), k) } }

\* The path strings of the result of the call: the string of a single
\* builder, the strings of the sequence of a batch builder.
PathsOfResult ==
    IF result.throws \/ fn \in {"", "getPointOnCircle", "getLeftParallelLine",
                                "getRightParallelLine"}
    THEN {}
    ELSE IF fn \in SingleBuilders \cup LegacySingle
    THEN { result.value }
    ELSE { result.value[i] : i \in 1..Len(result.value) }

\* The number has at most two decimal places.
TwoDecimals(n) == n % (ONE \div 100) = 0

----------------------------------------------------------------------------
(* Claims *)

\* C1: getAnnulusSectorPaths called with an integer sectorCount n >= 1 and
\* valid radii returns a sequence of exactly n path strings, each starting
\* with "M " and ending with "Z"; n = 1 and n = 2 are served like any other n.
C1_ReturnsOnePathPerSector ==
    (/\ fn = "getAnnulusSectorPaths"
     /\ args.sectorCount >= 1
     /\ args.p3 <= args.outerRadius)
    => /\ ~result.throws
       /\ Len(result.value) = args.sectorCount
       /\ \A i \in 1..Len(result.value) :
             StartsWithM(result.value[i]) /\ EndsWithZ(result.value[i])

\* C6: getLeftParallelLine and getRightParallelLine called on a line of
\* length zero (start = end) fail with an error instead of returning a line.
C6_ZeroLengthLineFails ==
    (/\ fn \in {"getLeftParallelLine", "getRightParallelLine"}
     /\ args.start = args.end)
    => result.throws

\* C7: every batch builder rejects a sectorCount <= 0 with an error: it
\* returns no result for such a count.
C7_NonPositiveCountFails ==
    (/\ fn \in BatchBuilders \cup LegacyBatch
     /\ args.sectorCount <= 0)
    => result.throws

\* C10: every coordinate of a computed point written into a returned path
\* string is rounded to two decimal places.
C10_CoordinatesHaveTwoDecimals ==
    \A path \in PathsOfResult : \A n \in Coordinates(path) : TwoDecimals(n)

\* The shape of the collapsed form: M, outer arc, L to the apex, Z.
CollapsedShape ==
    << "M", "num", "num",
       "A", "num", "num", "num", "num", "num", "num", "num",
       "L", "num", "num", "Z" >>

\* The shape of the full form: M, outer arc, L, inner arc, Z.
FullShape ==
    << "M", "num", "num",
       "A", "num", "num", "num", "num", "num", "num", "num",
       "L", "num", "num",
       "A", "num", "num", "num", "num", "num", "num", "num", "Z" >>

\* Items 4..11 are an arc of the radius with rotation 0, large-arc flag 0
\* and the sweep flag (written 0 or 1).
IsArc(items, at, radius, sweep) ==
    /\ items[at] = A
    /\ items[at + 1].n = radius /\ items[at + 2].n = radius
    /\ items[at + 3].n = 0 /\ items[at + 4].n = 0
    /\ items[at + 5].n = sweep * ONE

\* C3: a path returned by getAnnulusSectorPath has the collapsed form
\* (M, outer arc clockwise, L to the apex where the two boundary lines meet,
\* Z) when innerRadius <= spokeWidth, and the full form (M, outer arc
\* clockwise, L to the point of the end boundary on the inner circle, inner
\* arc counter-clockwise to the point of the start boundary on the inner
\* circle, Z) otherwise.  Both arcs have rotation 0 and large-arc flag 0.
C3_FormFollowsInnerRadius ==
    (fn = "getAnnulusSectorPath" /\ ~result.throws) =>
        LET items == Items(result.value)
            startAngle == args.startAngle
            endAngle == args.startAngle + args.span
            outerRadius == args.outerRadius
            innerRadius == args.p4
            spokeWidth == args.p5
            center == args.center
        IN  /\ result.value = stripWhitespace(result.value)
            /\ IF innerRadius <= spokeWidth
               THEN /\ Shape(result.value) = CollapsedShape
                    /\ OnStartBoundary(PointAt(items, 13), center, startAngle, spokeWidth)
                    /\ OnEndBoundary(PointAt(items, 13), center, endAngle, spokeWidth)
               ELSE /\ Shape(result.value) = FullShape
                    /\ OnEndBoundary(PointAt(items, 13), center, endAngle, spokeWidth)
                    /\ OnCircle(PointAt(items, 13), center, innerRadius)
                    /\ IsArc(items, 15, innerRadius, 0)
                    /\ OnStartBoundary(PointAt(items, 21), center, startAngle, spokeWidth)
                    /\ OnCircle(PointAt(items, 21), center, innerRadius)
            /\ OnStartBoundary(PointAt(items, 2), center, startAngle, spokeWidth)
            /\ OnCircle(PointAt(items, 2), center, outerRadius)
            /\ IsArc(items, 4, outerRadius, 1)
            /\ OnEndBoundary(PointAt(items, 10), center, endAngle, spokeWidth)
            /\ OnCircle(PointAt(items, 10), center, outerRadius)

\* C3: both forms are reached, the boundary innerRadius = spokeWidth
\* included.
C3_Witness ==
    /\ fn = "getAnnulusSectorPath"
    /\ ~result.throws
    /\ args.p4 = args.p5
    /\ args.p4 > 0
    /\ Shape(result.value) = CollapsedShape

C3_WitnessFull ==
    /\ fn = "getAnnulusSectorPath"
    /\ ~result.throws
    /\ args.p4 > args.p5
    /\ args.p5 > 0
    /\ Shape(result.value) = FullShape

\* C4: getAnnulusSectorArcTextPath and getAnnulusSectorLineTextPath write
\* their two guide points in the order of their x coordinates.  The arc
\* runs on the circle of radius (innerRadius + outerRadius) / 2 from the
\* start boundary to the end boundary with sweep flag 1, or, when the point
\* of the start boundary has the larger x, from the end boundary to the
\* start boundary with sweep flag 0.  The line runs on the bisector from the
\* inner circle to the outer circle, or the other way round when the inner
\* point has the larger x.
C4_TextRunsLeftToRight ==
    LET items == Items(result.value)
        first == PointAt(items, 2)
        startAngle == args.startAngle
        endAngle == args.startAngle + args.span
        outerRadius == args.outerRadius
        innerRadius == args.p4
        spokeWidth == args.p5
        center == args.center
        middleRadius == RoundDiv(innerRadius + outerRadius, 2)
        middleAngle == RoundDiv(startAngle + endAngle, 2)
    IN  /\ (fn = "getAnnulusSectorArcTextPath" /\ ~result.throws) =>
              LET second == PointAt(items, 10)
                  sweep == items[9].n
              IN  /\ Shape(result.value) =
                        << "M", "num", "num", "A", "num", "num", "num", "num",
                           "num", "num", "num" >>
                  /\ items[5].n = middleRadius /\ items[6].n = middleRadius
                  /\ items[7].n = 0 /\ items[8].n = 0
                  /\ OnCircle(first, center, middleRadius)
                  /\ OnCircle(second, center, middleRadius)
                  /\ first.x <= second.x
                  /\ \/ /\ sweep = ONE
                        /\ OnStartBoundary(first, center, startAngle, spokeWidth)
                        /\ OnEndBoundary(second, center, endAngle, spokeWidth)
                     \/ /\ sweep = 0
                        /\ first.x < second.x
                        /\ OnEndBoundary(first, center, endAngle, spokeWidth)
                        /\ OnStartBoundary(second, center, startAngle, spokeWidth)
        /\ (fn = "getAnnulusSectorLineTextPath" /\ ~result.throws) =>
              LET second == PointAt(items, 5)
              IN  /\ Shape(result.value) = << "M", "num", "num", "L", "num", "num" >>
                  /\ Abs(LeftOf(first, center, middleAngle)) <= Tolerance
                  /\ Abs(LeftOf(second, center, middleAngle)) <= Tolerance
                  /\ first.x <= second.x
                  /\ \/ /\ OnCircle(first, center, innerRadius)
                        /\ OnCircle(second, center, outerRadius)
                     \/ /\ first.x < second.x
                        /\ OnCircle(first, center, outerRadius)
                        /\ OnCircle(second, center, innerRadius)

\* C4: an arc text path whose points were swapped: sweep flag 0.
C4_Witness ==
    /\ fn = "getAnnulusSectorArcTextPath"
    /\ ~result.throws
    /\ Items(result.value)[9].n = 0
    /\ args.span > 0

\* C4: a line text path that runs from the outer circle to the inner one.
C4_WitnessLine ==
    /\ fn = "getAnnulusSectorLineTextPath"
    /\ ~result.throws
    /\ ~OnCircle(PointAt(Items(result.value), 2), args.center, args.p4)

\* The conversion of C5: ((deg % 360) - 90) / 180 * pi, % the remainder
\* with the sign of the dividend.
C5_Radians(deg) ==
    LET remainder == IF deg >= 0 THEN deg % (360 * ONE)
                     ELSE -((-deg) % (360 * ONE))
    IN  Mul(Div(remainder - 90 * ONE, 180 * ONE), PI)

\* C5: each getWheelSegment* function returns what its getAnnulusSector*
\* counterpart returns on the converted angles: the single-segment
\* functions convert startAngle and endAngle, the batch functions convert
\* angleOffset only.  With the default angleOffset of 0 degrees the first
\* segment starts at the top of the circle.
C5_LegacyDelegates ==
    LET start == C5_Radians(args.startAngle)
        end == C5_Radians(args.startAngle + args.span)
        offset == C5_Radians(args.p5)
        first == PointAt(Items(result.value[1]), 2)
    IN  /\ fn = "getWheelSegmentPath" =>
              result = getAnnulusSectorPath(start, end, args.outerRadius,
                                            args.p4, args.p5, args.center)
        /\ fn = "getWheelSegmentArcTextPath" =>
              result = getAnnulusSectorArcTextPath(start, end, args.outerRadius,
                                                   args.p4, args.p5, args.center)
        /\ fn = "getWheelSegmentLineTextPath" =>
              result = getAnnulusSectorLineTextPath(start, end, args.outerRadius,
                                                    args.p4, args.p5, args.center)
        /\ fn = "getWheelSegmentPaths" =>
              result = getAnnulusSectorPaths(args.sectorCount, args.outerRadius,
                                             args.p3, args.p4, offset, args.center)
        /\ fn = "getWheelSegmentArcTextPaths" =>
              result = getAnnulusSectorArcTextPaths(args.sectorCount, args.outerRadius,
                                                    args.p3, args.p4, offset, args.center)
        /\ fn = "getWheelSegmentLineTextPaths" =>
              result = getAnnulusSectorLineTextPaths(args.sectorCount, args.outerRadius,
                                                     args.p3, args.p4, offset, args.center)
        /\ (/\ fn = "getWheelSegmentPaths"
            /\ args.p5 = 0
            /\ ~result.throws
            /\ Len(result.value) >= 1) =>
              /\ Abs(first.x - (args.center.x + RoundDiv(args.p4, 2))) <= Tolerance
              /\ first.y < args.center.y
              /\ OnCircle(first, args.center, args.outerRadius)

\* C5: a single segment given in degrees, with an angle that the remainder
\* brings back into the circle, has been built.
C5_Witness ==
    /\ fn = "getWheelSegmentPath"
    /\ ~result.throws
    /\ args.startAngle >= 360 * ONE
    /\ args.span > 0

\* C5: a batch with the default angleOffset has been built.
C5_WitnessBatch ==
    /\ fn = "getWheelSegmentPaths"
    /\ ~result.throws
    /\ args.argc < 5
    /\ Len(result.value) >= 2

\* C2: for sectorCount n >= 1 a batch builder returns, in index order, what
\* its single-sector builder returns for each sector i = 0..n-1, sector i
\* running from angleOffset + i * span to angleOffset + (i + 1) * span with
\* span = 2 pi / n, the other arguments unchanged: consecutive sectors share
\* their boundary angle and the n sectors cover the full turn.
C2_BatchDelegates ==
    (fn \in BatchBuilders /\ args.sectorCount >= 1) =>
        LET n == args.sectorCount
            span == RoundDiv(2 * PI, n)
            singles == SinglesOfBatch
        IN  /\ Abs(n * span - 2 * PI) <= n
            /\ IF \E i \in 0..(n - 1) : singles[i].throws
               THEN result.throws
               ELSE /\ ~result.throws
                    /\ Len(result.value) = n
                    /\ \A i \in 0..(n - 1) : result.value[i + 1] = singles[i].value

\* C2: a batch of several different paths has been returned.
C2_Witness ==
    /\ fn \in BatchBuilders
    /\ ~result.throws
    /\ Len(result.value) >= 3
    /\ result.value[1] # result.value[2]
    /\ result.value[2] # result.value[3]

\* Some intersection lookup of the single-sector builder of the name finds
\* no point on the arguments.
C8_LookupMisses(name, startAngle, endAngle, outerRadius, innerRadius, spokeWidth, center) ==
    LET reach == IF name = "getAnnulusSectorArcTextPath"
                 THEN outerRadius ELSE outerRadius + ONE
        leftLine == getRightParallelLine(
                        center, getPointOnCircle(startAngle, reach, center),
                        Div(spokeWidth, 2 * ONE))
        rightLine == getLeftParallelLine(
                        center, getPointOnCircle(endAngle, reach, center),
                        Div(spokeWidth, 2 * ONE))
        middleRadius == Div(innerRadius + outerRadius, 2 * ONE)
        lineEnd == getPointOnCircle(Div(startAngle + endAngle, 2 * ONE),
                                    outerRadius + ONE, center)
        Misses(points) == points = << >>
    IN  IF name = "getAnnulusSectorPath"
        THEN \/ Misses(intersectCircleLine(center, outerRadius, leftLine.start, leftLine.end))
             \/ Misses(intersectCircleLine(center, outerRadius, rightLine.start, rightLine.end))
             \/ /\ innerRadius <= spokeWidth
                /\ Misses(intersectLineLine(rightLine.start, rightLine.end,
                                            leftLine.start, leftLine.end))
             \/ /\ innerRadius > spokeWidth
                /\ \/ Misses(intersectCircleLine(center, innerRadius,
                                                 rightLine.start, rightLine.end))
                   \/ Misses(intersectCircleLine(center, innerRadius,
                                                 leftLine.start, leftLine.end))
        ELSE IF name = "getAnnulusSectorArcTextPath"
        THEN \/ Misses(intersectCircleLine(center, middleRadius, leftLine.start, leftLine.end))
             \/ Misses(intersectCircleLine(center, middleRadius, rightLine.start, rightLine.end))
        ELSE \/ Misses(intersectCircleLine(center, innerRadius, center, lineEnd))
             \/ Misses(intersectCircleLine(center, outerRadius, center, lineEnd))

\* The single-sector builder behind a batch builder.
C8_SingleName(name) ==
    IF name = "getAnnulusSectorPaths" THEN "getAnnulusSectorPath"
    ELSE IF name = "getAnnulusSectorArcTextPaths" THEN "getAnnulusSectorArcTextPath"
    ELSE "getAnnulusSectorLineTextPath"

\* C8: when an intersection a single-sector builder needs does not exist
\* (boundary lines that are parallel or coincident, a boundary line or the
\* bisector that misses or only touches its circle), the builder fails with
\* an error and returns no path; a batch call with such a sector fails as a
\* whole and returns no partial sequence.
C8_MissingPointFails ==
    /\ (/\ fn \in SingleBuilders
        /\ C8_LookupMisses(fn, args.startAngle, args.startAngle + args.span,
                           args.outerRadius, args.p4, args.p5, args.center))
       => (result.throws /\ result.value = << >>)
    /\ (/\ fn \in BatchBuilders
        /\ \E i \in 0..(args.sectorCount - 1) :
              LET span == RoundDiv(2 * PI, args.sectorCount)
              IN  C8_LookupMisses(C8_SingleName(fn), args.p5 + i * span,
                                  args.p5 + i * span + span, args.outerRadius,
                                  args.p3, args.p4, args.center))
       => (result.throws /\ result.value = << >>)
    /\ \A path \in PathsOfResult :
          \A i \in 1..Len(path) : path[i].c = "num" => ~IsNaN(path[i].n)

\* C8: a single builder failed on a bisector that only touches the inner
\* circle of radius 0.
C8_Witness ==
    /\ fn = "getAnnulusSectorLineTextPath"
    /\ args.p4 = 0
    /\ result.throws

\* C8: a batch failed although only some of its sectors miss a point.
C8_WitnessBatch ==
    /\ fn \in BatchBuilders
    /\ args.sectorCount >= 2
    /\ result.throws

C12_ParallelLineAlgebra ==
    (/\ fn \in {"getLeftParallelLine", "getRightParallelLine"}
     /\ args.start # args.end)
    => LET line == result.value
           moveX == line.start.x - args.start.x
           moveY == line.start.y - args.start.y
           directionX == args.end.x - args.start.x
           directionY == args.end.y - args.start.y
       IN  /\ ~result.throws
           /\ line.end.x - line.start.x = directionX
           /\ line.end.y - line.start.y = directionY
           /\ line.end.x - args.end.x = moveX
           /\ line.end.y - args.end.y = moveY
           /\ Abs(Mul(moveX, directionX) + Mul(moveY, directionY)) <= Tolerance
           /\ Abs(moveX) <= Abs(args.offset) + Tolerance
           /\ Abs(moveY) <= Abs(args.offset) + Tolerance
           /\ Abs(Mul(moveX, moveX) + Mul(moveY, moveY)
                  - Mul(args.offset, args.offset))
                <= Mul(2 * Abs(args.offset), Tolerance)
           /\ fn = "getLeftParallelLine" =>
                 line = getRightParallelLine(args.start, args.end, -args.offset)
           /\ fn = "getRightParallelLine" =>
                 line = getLeftParallelLine(args.start, args.end, -args.offset)
           /\ args.offset = 0 => line = [start |-> args.start, end |-> args.end]

\* C12: a slanted line has been moved by an offset other than 0.
C12_Witness ==
    /\ fn = "getLeftParallelLine"
    /\ args.start.x # args.end.x
    /\ args.start.y # args.end.y
    /\ args.offset < 0
    /\ result.value.start # args.start

\* C13: for degree angles 0 <= startAngle < endAngle <= 360 the conversion
\* keeps the span, degToRad(endAngle) - degToRad(startAngle) =
\* (endAngle - startAngle) * pi / 180, the mid-angle of
\* getWheelSegmentLineTextPath points where degToRad((startAngle +
\* endAngle) / 2) points, and the guide line it returns lies on that side of
\* the center.
C13_OrientationKept ==
    LET startAngle == args.startAngle
        endAngle == args.startAngle + args.span
        middleAngle == Div(degToRad(startAngle) + degToRad(endAngle), 2 * ONE)
        bisector == degToRad(Div(startAngle + endAngle, 2 * ONE))
        Ahead(p) == Mul(p.x - args.center.x, Cos(bisector))
                    + Mul(p.y - args.center.y, Sin(bisector)) > 0
    IN  (/\ fn = "getWheelSegmentLineTextPath"
         /\ 0 <= startAngle
         /\ startAngle < endAngle
         /\ endAngle <= 360 * ONE)
        => /\ Abs(degToRad(endAngle) - degToRad(startAngle)
                  - Mul(Div(endAngle - startAngle, 180 * ONE), PI)) <= Tolerance
           /\ Abs(Cos(middleAngle) - Cos(bisector)) <= Tolerance
           /\ Abs(Sin(middleAngle) - Sin(bisector)) <= Tolerance
           /\ ~result.throws =>
                 /\ Ahead(PointAt(Items(result.value), 2))
                 /\ Ahead(PointAt(Items(result.value), 5))

====
